---- MODULE Spec2Model ----
(***************************************************************************)
(* Model of plugins/modules/remotesystem.py: one invocation of             *)
(* PowerstoreRemoteSystem.perform_module_operation against a PowerStore    *)
(* array, the array being reached only through the py4ps client calls      *)
(* (get_cluster_list, get_remote_system_by_mgmt_address,                   *)
(* get_remote_system_details, exchange_certificate, create_remote_system,  *)
(* modify_remote_system, delete_remote_system).                            *)
(***************************************************************************)
EXTENDS Integers, Sequences, FiniteSets, TLC

\* ------------------------------------------------------------------------
\* Python values
\* ------------------------------------------------------------------------

\* Python's None for the optional string parameters.
None == "None"

\* Truth value of an optional string: None and "" are both falsy.
Truthy(v) == v # None /\ v # ""

\* remote_port default of the argument spec.
DefaultPort == 443

\* Number of consecutive invocations with the same parameters (SpecTwice).
MaxRuns == 2

\* ------------------------------------------------------------------------
\* The array (Array Client side)
\* ------------------------------------------------------------------------

\* Ids the array assigns, in the order it assigns them, and the name that
\* goes with each id.
Ids == <<"s1", "s2", "s3">>
NameOf == [s1 |-> "n1", s2 |-> "n2", s3 |-> "n3"]

Addresses == {"A", "B"}
Descriptions == {"", "d1"}
Latencies == {"Low", "High"}

\* The three attributes create and modify carry.
PatchKeys == {"management_address", "description", "data_network_latency"}

\* A remote system record as the array returns it.
Record(id, addr, desc, lat) ==
    [kind |-> "Record", id |-> id, name |-> NameOf[id],
     management_address |-> addr, description |-> desc,
     data_network_latency |-> lat]

\* The two falsy values a lookup can return: None (404) and [] (no match).
NoneDetails ==
    [kind |-> "None", id |-> None, name |-> None,
     management_address |-> None, description |-> None,
     data_network_latency |-> None]
EmptyList == [NoneDetails EXCEPT !.kind = "EmptyList"]

\* Truth value of a lookup result.
DetailsTruthy(d) == d.kind = "Record"

\* Keys of a returned record (kind is the tag of the model, not a key).
DetailKeys(d) == DOMAIN d \ {"kind"}

\* A payload that carries nothing.
NoArgs ==
    [management_address |-> None, description |-> None,
     data_network_latency |-> None]
NoCred == [port |-> 0, username |-> None, password |-> None]

\* Systems registered with management address addr / with id id.
ByAddress(systems, addr) == {s \in systems : s.management_address = addr}
ById(systems, id) == {s \in systems : s.id = id}

\* The id the array gives the next created system: the first unused one.
FreeIds(systems) ==
    {i \in 1..Len(Ids) : \A s \in systems : s.id # Ids[i]}
NewId(systems) ==
    Ids[CHOOSE i \in FreeIds(systems) : \A j \in FreeIds(systems) : i <= j]

\* create: the array stores the supplied attributes; an attribute sent as
\* null gets the array's own default.
ArrayCreate(systems, payload, desc0, lat0) ==
    systems \cup
      {Record(NewId(systems), payload.management_address,
              IF payload.description = None THEN desc0
              ELSE payload.description,
              IF payload.data_network_latency = None THEN lat0
              ELSE payload.data_network_latency)}

\* modify: null fields of the patch are left untouched.
ArrayModify(systems, id, patch) ==
    {IF s.id = id
     THEN [k \in DOMAIN s |->
             IF k \in DOMAIN patch /\ patch[k] # None THEN patch[k] ELSE s[k]]
     ELSE s : s \in systems}

\* delete by id.
ArrayDelete(systems, id) == {s \in systems : s.id # id}

\* ------------------------------------------------------------------------
\* Pure helpers of the module
\* ------------------------------------------------------------------------

\* Variant of IsAsync that forwards wait_for_completion itself.
IsAsync_NotNegated(p) == p.wait_for_completion

\* is_async = not wait_for_completion (the argument spec defaults
\* wait_for_completion to False, so the None case never reaches the code).
IsAsync(p) == ~p.wait_for_completion

\* Variant of modify_remote_system_required with a truth test in place of
\* the "is not None" test.
modify_required_TruthTest(remote_sys_details, passed_args) ==
    \E key \in DetailKeys(remote_sys_details) :
        /\ key \in DOMAIN passed_args
        /\ Truthy(passed_args[key])
        /\ remote_sys_details[key] # passed_args[key]

\* Variant of modify_remote_system_required without the "is not None" test.
modify_required_NoneCounts(remote_sys_details, passed_args) ==
    \E key \in DetailKeys(remote_sys_details) :
        /\ key \in DOMAIN passed_args
        /\ remote_sys_details[key] # passed_args[key]

\* modify_remote_system_required(remote_sys_details, passed_args)
modify_remote_system_required(remote_sys_details, passed_args) ==
    \E key \in DetailKeys(remote_sys_details) :
        /\ key \in DOMAIN passed_args
        /\ passed_args[key] # None
        /\ remote_sys_details[key] # passed_args[key]

\* Variant of ModifyDict that also forwards remote_user.
ModifyDict_WithUser(p) ==
    [management_address |-> p.new_remote_address,
     description |-> p.description,
     data_network_latency |-> p.network_latency,
     username |-> p.remote_user]

\* Variant of ModifyDict that takes remote_address for new_remote_address.
ModifyDict_RemoteAddress(p) ==
    [management_address |-> p.remote_address,
     description |-> p.description,
     data_network_latency |-> p.network_latency]

\* modify_remote_sys_dict of the update section.
ModifyDict(p) ==
    [management_address |-> p.new_remote_address,
     description |-> p.description,
     data_network_latency |-> p.network_latency]

\* create_remote_sys_dict of create_remote_system.
CreateDict(remote_address, description, network_latency) ==
    [management_address |-> remote_address,
     description |-> description,
     data_network_latency |-> network_latency]

\* Variant of ClustersFound that accepts the empty list.
ClustersFound_OffByOne(clusters) == Len(clusters) >= 0

\* len(clusters) > 0
ClustersFound(clusters) == Len(clusters) > 0

\* Variant of NameAlone with the "not" of remote_id dropped.
NameAlone_IdGiven(name, address, id) ==
    Truthy(name) /\ ~Truthy(address) /\ Truthy(id)

\* remote_name given without remote_address and remote_id.
NameAlone(name, address, id) ==
    Truthy(name) /\ ~Truthy(address) /\ ~Truthy(id)

\* Variant of IdentityPassed that tests remote_id only.
IdentityPassed_IdOnly(id, name) == Truthy(id)

\* remote_id/remote_name passed during creation.
IdentityPassed(id, name) == Truthy(id) \/ Truthy(name)

\* Variant of DeleteSection that tests the details against None only, so
\* that an empty list counts as a system.
DeleteSection_NotNone(details, state) ==
    details.kind # "None" /\ state = "absent"

\* Variant of DeleteSection that does not look at the details.
DeleteSection_StateOnly(details, state) == state = "absent"

\* Conditions of the three sections of perform_module_operation.
CreateSection(details, state) == ~DetailsTruthy(details) /\ state = "present"
DeleteSection(details, state) == DetailsTruthy(details) /\ state = "absent"
UpdateSection(details, state) == DetailsTruthy(details) /\ state = "present"

\* Variant of ResultOf that reports changed whatever was done.
ResultOf_AlwaysChanged(changed, job_id, details) ==
    [changed |-> TRUE, job_details |-> job_id,
     has_details |-> ~Truthy(job_id),
     remote_system_details |-> IF ~Truthy(job_id) THEN details
                               ELSE NoneDetails]

\* Variant of ResultOf that reports changed as it was initialised.
ResultOf_ChangedLost(changed, job_id, details) ==
    [changed |-> FALSE, job_details |-> job_id,
     has_details |-> ~Truthy(job_id),
     remote_system_details |-> IF ~Truthy(job_id) THEN details
                               ELSE NoneDetails]

\* Variant of ResultOf that leaves job_details unset.
ResultOf_NoJob(changed, job_id, details) ==
    [changed |-> changed, job_details |-> None,
     has_details |-> ~Truthy(job_id),
     remote_system_details |-> IF ~Truthy(job_id) THEN details
                               ELSE NoneDetails]

\* Variant of ResultOf that reports the details whatever job_id is.
ResultOf_AlwaysDetails(changed, job_id, details) ==
    [changed |-> changed, job_details |-> job_id,
     has_details |-> TRUE,
     remote_system_details |-> details]

\* The result handed to exit_json: remote_system_details is set only when
\* job_id is falsy.
ResultOf(changed, job_id, details) ==
    [changed |-> changed, job_details |-> job_id,
     has_details |-> ~Truthy(job_id),
     remote_system_details |-> IF ~Truthy(job_id) THEN details
                               ELSE NoneDetails]
NoResult ==
    [changed |-> FALSE, job_details |-> None, has_details |-> FALSE,
     remote_system_details |-> NoneDetails]

\* One Array Client call as the log keeps it: the operation, its arguments
\* (is_async is <<>> for a call that takes no async flag), how it ended
\* ("ok", "404", "error") and what it returned.
Call(op, id, addr, args, async, cred, outcome, resp, job) ==
    [op |-> op, id |-> id, addr |-> addr, args |-> args,
     is_async |-> async, cred |-> cred, outcome |-> outcome,
     resp |-> resp, job |-> job, clusters |-> <<>>]

MutatingOps == {"exchange", "create", "modify", "delete"}

\* ------------------------------------------------------------------------
\* State
\* ------------------------------------------------------------------------

VARIABLES
    params,              \* self.module.params
    systems,             \* remote systems registered on the array
    pc,                  \* position in perform_module_operation
    remote_sys_id,       \* locals of perform_module_operation
    remote_sys_name,
    remote_sys_address,
    remote_sys_details,
    changed,
    job_id,
    calls,               \* Array Client calls of this invocation, in order
    result,              \* argument of exit_json
    failure,             \* reason of fail_json, "" when none
    run,                 \* number of the invocation
    history              \* calls and result of the earlier invocations

vars == <<params, systems, pc, remote_sys_id, remote_sys_name,
          remote_sys_address, remote_sys_details, changed, job_id, calls,
          result, failure, run, history>>

locals == <<remote_sys_id, remote_sys_name, remote_sys_address,
            remote_sys_details, changed, job_id>>

\* Parameters AnsibleModule accepts: remote_id and remote_address are
\* mutually exclusive, remote_user and remote_password go together.
ParamSpace ==
    {p \in [remote_id : {None, "", "s1"},
            remote_name : {None, "", "n1", "n2"},
            remote_address : {None, "", "A", "B"},
            new_remote_address : {None, "A", "B"},
            remote_user : {None, "admin"},
            remote_password : {None, "pw"},
            remote_port : {DefaultPort},
            description : {None, "", "d1"},
            network_latency : {None, "Low", "High"},
            wait_for_completion : BOOLEAN,
            state : {"present", "absent"}] :
        /\ ~(p.remote_id # None /\ p.remote_address # None)
        /\ (p.remote_user = None) <=> (p.remote_password = None)}

\* The array holds no remote system or the one with id s1.
InitialArrays ==
    {{}} \cup {{Record("s1", a, d, l)} :
                 a \in Addresses, d \in Descriptions, l \in Latencies}

\* Start of perform_module_operation: the parameters are collected.
Collected(p) ==
    /\ pc = "get_clusters"
    /\ remote_sys_id = p.remote_id
    /\ remote_sys_name = p.remote_name
    /\ remote_sys_address = p.remote_address
    /\ remote_sys_details = NoneDetails
    /\ changed = FALSE
    /\ job_id = None
    /\ calls = <<>>
    /\ result = NoResult
    /\ failure = ""

Init ==
    /\ params \in ParamSpace
    /\ systems \in InitialArrays
    /\ Collected(params)
    /\ run = 1
    /\ history = <<>>

\* fail_json(msg): the process exits.
FailJson(msg) ==
    /\ pc' = "failed"
    /\ failure' = msg

\* Variant of ClientError that logs the exception and goes on.
ClientError_GoOn(call) ==
    /\ calls' = Append(calls, call)
    /\ UNCHANGED <<pc, failure>>

\* The Array Client raised an exception other than the 404 of a lookup.
ClientError(call) ==
    /\ calls' = Append(calls, call)
    /\ FailJson("client_error")

\* ------------------------------------------------------------------------
\* perform_module_operation
\* ------------------------------------------------------------------------

\* clusters = self.get_clusters(); no active cluster is fatal.
GetClusters ==
    /\ pc = "get_clusters"
    /\ \/ ClientError(Call("get_cluster_list", None, None, NoArgs, <<>>,
                           NoCred, "error", NoneDetails, None))
       \/ \E clusters \in {<<>>, <<"c1">>} :
            /\ calls' = Append(calls,
                  [Call("get_cluster_list", None, None, NoArgs, <<>>,
                        NoCred, "ok", NoneDetails, None)
                     EXCEPT !.clusters = clusters])
            /\ IF ClustersFound(clusters)
               THEN pc' = "check_name" /\ UNCHANGED failure
               ELSE FailJson("no_cluster")
    /\ UNCHANGED <<params, systems, locals, result, run, history>>

\* remote_name needs remote_address or remote_id.
CheckName ==
    /\ pc = "check_name"
    /\ IF NameAlone(remote_sys_name, remote_sys_address, remote_sys_id)
       THEN FailJson("name_alone")
       ELSE pc' = "lookup" /\ UNCHANGED failure
    /\ UNCHANGED <<params, systems, locals, calls, result, run, history>>

\* Variant of LookupResult that leaves remote_sys_id as it was given.
LookupResult_IdNotAdopted(details, call) ==
    /\ calls' = Append(calls, call)
    /\ remote_sys_details' = details
    /\ IF DetailsTruthy(details)
       THEN /\ remote_sys_id' = remote_sys_id
            /\ IF Truthy(remote_sys_name) /\ remote_sys_name # details.name
               THEN /\ FailJson("name_mismatch")
                    /\ UNCHANGED <<remote_sys_name, remote_sys_address>>
               ELSE /\ pc' = "create_section"
                    /\ UNCHANGED failure
                    /\ remote_sys_name' =
                         IF ~Truthy(remote_sys_name) THEN details.name
                         ELSE remote_sys_name
                    /\ remote_sys_address' =
                         IF ~Truthy(remote_sys_name)
                            /\ ~Truthy(remote_sys_address)
                         THEN details.management_address
                         ELSE remote_sys_address
       ELSE /\ pc' = "create_section"
            /\ UNCHANGED <<failure, remote_sys_id, remote_sys_name,
                           remote_sys_address>>

\* Variant of LookupResult that takes a lookup which found nothing for a
\* failure of the call.
LookupResult_MissingIsFatal(details, call) ==
    /\ calls' = Append(calls, call)
    /\ remote_sys_details' = details
    /\ IF DetailsTruthy(details)
       THEN /\ remote_sys_id' = IF ~Truthy(remote_sys_id) THEN details.id
                                ELSE remote_sys_id
            /\ IF Truthy(remote_sys_name) /\ remote_sys_name # details.name
               THEN /\ FailJson("name_mismatch")
                    /\ UNCHANGED <<remote_sys_name, remote_sys_address>>
               ELSE /\ pc' = "create_section"
                    /\ UNCHANGED failure
                    /\ remote_sys_name' =
                         IF ~Truthy(remote_sys_name) THEN details.name
                         ELSE remote_sys_name
                    /\ remote_sys_address' =
                         IF ~Truthy(remote_sys_name)
                            /\ ~Truthy(remote_sys_address)
                         THEN details.management_address
                         ELSE remote_sys_address
       ELSE /\ FailJson("client_error")
            /\ UNCHANGED <<remote_sys_id, remote_sys_name,
                           remote_sys_address>>

\* Variant of LookupResult that adopts the found address whether or not
\* remote_name was given.
LookupResult_AlwaysAddress(details, call) ==
    /\ calls' = Append(calls, call)
    /\ remote_sys_details' = details
    /\ IF DetailsTruthy(details)
       THEN /\ remote_sys_id' = IF ~Truthy(remote_sys_id) THEN details.id
                                ELSE remote_sys_id
            /\ IF Truthy(remote_sys_name) /\ remote_sys_name # details.name
               THEN /\ FailJson("name_mismatch")
                    /\ UNCHANGED <<remote_sys_name, remote_sys_address>>
               ELSE /\ pc' = "create_section"
                    /\ UNCHANGED failure
                    /\ remote_sys_name' =
                         IF ~Truthy(remote_sys_name) THEN details.name
                         ELSE remote_sys_name
                    /\ remote_sys_address' =
                         IF ~Truthy(remote_sys_address)
                         THEN details.management_address
                         ELSE remote_sys_address
       ELSE /\ pc' = "create_section"
            /\ UNCHANGED <<failure, remote_sys_id, remote_sys_name,
                           remote_sys_address>>

\* remote_sys_details = self.get_remote_system_details(name, address, id):
\* by management address when remote_address is truthy (first match, or
\* the empty list), by id otherwise; a 404 of either query gives None (the
\* array answers 404 only when it holds no such system; a query by address
\* without a match is answered with the empty list or with 404); any other
\* exception is fatal; then the name cross-check and the backfill of id,
\* name and address.
LookupResult(details, call) ==
    /\ calls' = Append(calls, call)
    /\ remote_sys_details' = details
    /\ IF DetailsTruthy(details)
       THEN /\ remote_sys_id' = IF ~Truthy(remote_sys_id) THEN details.id
                                ELSE remote_sys_id
            /\ IF Truthy(remote_sys_name) /\ remote_sys_name # details.name
               THEN /\ FailJson("name_mismatch")
                    /\ UNCHANGED <<remote_sys_name, remote_sys_address>>
               ELSE /\ pc' = "create_section"
                    /\ UNCHANGED failure
                    /\ remote_sys_name' =
                         IF ~Truthy(remote_sys_name) THEN details.name
                         ELSE remote_sys_name
                    /\ remote_sys_address' =
                         IF ~Truthy(remote_sys_name)
                            /\ ~Truthy(remote_sys_address)
                         THEN details.management_address
                         ELSE remote_sys_address
       ELSE /\ pc' = "create_section"
            /\ UNCHANGED <<failure, remote_sys_id, remote_sys_name,
                           remote_sys_address>>

Lookup ==
    /\ pc = "lookup"
    /\ IF Truthy(remote_sys_address)
       THEN \/ /\ ClientError(Call("get_by_mgmt_address", None,
                                   remote_sys_address, NoArgs, <<>>, NoCred,
                                   "error", NoneDetails, None))
               /\ UNCHANGED <<remote_sys_id, remote_sys_name,
                              remote_sys_address, remote_sys_details>>
            \/ /\ ByAddress(systems, remote_sys_address) = {}
               /\ \/ LookupResult(EmptyList,
                        Call("get_by_mgmt_address", None,
                             remote_sys_address, NoArgs, <<>>, NoCred, "ok",
                             EmptyList, None))
                  \/ LookupResult(NoneDetails,
                        Call("get_by_mgmt_address", None,
                             remote_sys_address, NoArgs, <<>>, NoCred, "404",
                             NoneDetails, None))
            \/ \E s \in ByAddress(systems, remote_sys_address) :
                 LookupResult(s,
                     Call("get_by_mgmt_address", None, remote_sys_address,
                          NoArgs, <<>>, NoCred, "ok", s, None))
       ELSE \/ /\ ClientError(Call("get_details", remote_sys_id, None,
                                   NoArgs, <<>>, NoCred, "error",
                                   NoneDetails, None))
               /\ UNCHANGED <<remote_sys_id, remote_sys_name,
                              remote_sys_address, remote_sys_details>>
            \/ /\ ById(systems, remote_sys_id) = {}
               /\ LookupResult(NoneDetails,
                     Call("get_details", remote_sys_id, None, NoArgs, <<>>,
                          NoCred, "404", NoneDetails, None))
            \/ \E s \in ById(systems, remote_sys_id) :
                 LookupResult(s,
                     Call("get_details", remote_sys_id, None, NoArgs, <<>>,
                          NoCred, "ok", s, None))
    /\ UNCHANGED <<params, systems, changed, job_id, result, run, history>>

\* "Create a remote system": entered when nothing was found and
\* state == "present"; remote_id/remote_name must not be passed.
EnterCreate ==
    /\ pc = "create_section"
    /\ IF CreateSection(remote_sys_details, params.state)
       THEN IF IdentityPassed(remote_sys_id, remote_sys_name)
            THEN FailJson("identity_passed")
            ELSE pc' = "exchange" /\ UNCHANGED failure
       ELSE pc' = "delete_section" /\ UNCHANGED failure
    /\ UNCHANGED <<params, systems, locals, calls, result, run, history>>

\* Variant of ExchangeCertificates that goes on after a failed exchange.
ExchangeCertificates_Swallow ==
    /\ pc = "exchange"
    /\ LET cred == [port |-> params.remote_port,
                    username |-> params.remote_user,
                    password |-> params.remote_password]
       IN \E outcome \in {"ok", "error"} :
            /\ calls' = Append(calls,
                  Call("exchange", None, remote_sys_address, NoArgs, <<>>,
                       cred, outcome, NoneDetails, None))
            /\ pc' = "create"
            /\ UNCHANGED failure
    /\ UNCHANGED <<params, systems, locals, result, run, history>>

\* self.exchange_certificates(user, password, address, port); the array
\* reaches the peer only at an address.
ExchangeCertificates ==
    /\ pc = "exchange"
    /\ LET cred == [port |-> params.remote_port,
                    username |-> params.remote_user,
                    password |-> params.remote_password]
       IN \/ ClientError(Call("exchange", None, remote_sys_address, NoArgs,
                              <<>>, cred, "error", NoneDetails, None))
          \/ /\ Truthy(remote_sys_address)
             /\ calls' = Append(calls,
                   Call("exchange", None, remote_sys_address, NoArgs, <<>>,
                        cred, "ok", NoneDetails, None))
             /\ pc' = "create"
             /\ UNCHANGED failure
    /\ UNCHANGED <<params, systems, locals, result, run, history>>

\* create_remote_system: self.protection.create_remote_system(dict); the
\* array registers a peer only under an address and while it has ids left.
CreateRemoteSystem ==
    /\ pc = "create"
    /\ LET payload == CreateDict(remote_sys_address, params.description,
                                 params.network_latency)
       IN \/ /\ ClientError(Call("create", None, None, payload, <<>>,
                                 NoCred, "error", NoneDetails, None))
             /\ UNCHANGED systems
          \/ /\ FreeIds(systems) # {}
             /\ Truthy(payload.management_address)
             /\ \E desc0 \in Descriptions, lat0 \in Latencies :
                  systems' = ArrayCreate(systems, payload, desc0, lat0)
             /\ calls' = Append(calls,
                   Call("create", NewId(systems), None, payload, <<>>,
                        NoCred, "ok", NoneDetails, None))
             /\ pc' = "create_fetch"
             /\ UNCHANGED failure
    /\ UNCHANGED <<params, locals, result, run, history>>

\* create_remote_system: the details are fetched by the id of the create
\* response; then changed = True and remote_sys_id = the new id.
CreateFetch ==
    /\ pc = "create_fetch"
    /\ LET id == calls[Len(calls)].id
       IN \/ /\ ClientError(Call("get_details", id, None, NoArgs, <<>>,
                                 NoCred, "error", NoneDetails, None))
             /\ UNCHANGED <<remote_sys_details, remote_sys_id, changed>>
          \/ \E s \in ById(systems, id) :
               /\ calls' = Append(calls,
                     Call("get_details", id, None, NoArgs, <<>>, NoCred,
                          "ok", s, None))
               /\ changed' = TRUE
               /\ remote_sys_details' = s
               /\ remote_sys_id' = s.id
               /\ pc' = "delete_section"
               /\ UNCHANGED failure
    /\ UNCHANGED <<params, systems, remote_sys_name, remote_sys_address,
                   job_id, result, run, history>>

\* "Delete a remote system": entered when a system was found and
\* state == "absent".
EnterDelete ==
    /\ pc = "delete_section"
    /\ pc' = IF DeleteSection(remote_sys_details, params.state)
             THEN "delete" ELSE "update_section"
    /\ UNCHANGED <<params, systems, locals, calls, result, failure, run,
                   history>>

\* delete_remote_system(remote_sys_id, is_async); the details are cleared.
\* An asynchronous call returns the job, a synchronous one a confirmation
\* that may be empty.
DeleteRemoteSystem ==
    /\ pc = "delete"
    /\ LET async == IsAsync(params)
       IN \/ /\ ClientError(Call("delete", remote_sys_id, None, NoArgs,
                                 <<async>>, NoCred, "error", NoneDetails,
                                 None))
             /\ UNCHANGED <<systems, changed, job_id, remote_sys_details>>
          \/ \E resp \in (IF async THEN {"job"} ELSE {None, "deleted"}) :
               /\ systems' = ArrayDelete(systems, remote_sys_id)
               /\ calls' = Append(calls,
                     Call("delete", remote_sys_id, None, NoArgs, <<async>>,
                          NoCred, "ok", NoneDetails, resp))
               /\ changed' = TRUE
               /\ job_id' = resp
               /\ remote_sys_details' = NoneDetails
               /\ pc' = "update_section"
               /\ UNCHANGED failure
    /\ UNCHANGED <<params, remote_sys_id, remote_sys_name,
                   remote_sys_address, result, run, history>>

\* "Update the details of remote system": entered when the details are
\* truthy and state == "present"; to_modify decides on the modify call.
EnterUpdate ==
    /\ pc = "update_section"
    /\ pc' = IF /\ UpdateSection(remote_sys_details, params.state)
                /\ modify_remote_system_required(remote_sys_details,
                                                 ModifyDict(params))
             THEN "modify" ELSE "exit"
    /\ UNCHANGED <<params, systems, locals, calls, result, failure, run,
                   history>>

\* modify_remote_system(remote_sys_id, modify_remote_sys_dict, is_async)
ModifyRemoteSystem ==
    /\ pc = "modify"
    /\ LET async == IsAsync(params)
           patch == ModifyDict(params)
       IN \/ /\ ClientError(Call("modify", remote_sys_id, None, patch,
                                 <<async>>, NoCred, "error", NoneDetails,
                                 None))
             /\ UNCHANGED <<systems, changed, job_id>>
          \/ \E resp \in (IF async THEN {"job"} ELSE {None, "modified"}) :
               /\ systems' = ArrayModify(systems, remote_sys_id, patch)
               /\ calls' = Append(calls,
                     Call("modify", remote_sys_id, None, patch, <<async>>,
                          NoCred, "ok", NoneDetails, resp))
               /\ changed' = TRUE
               /\ job_id' = IF async THEN resp ELSE job_id
               /\ pc' = IF async THEN "exit" ELSE "modify_fetch"
               /\ UNCHANGED failure
    /\ UNCHANGED <<params, remote_sys_id, remote_sys_name,
                   remote_sys_address, remote_sys_details, result, run,
                   history>>

\* Synchronous modify: the details are fetched again by id.
ModifyFetch ==
    /\ pc = "modify_fetch"
    /\ \/ /\ ClientError(Call("get_details", remote_sys_id, None, NoArgs,
                              <<>>, NoCred, "error", NoneDetails, None))
          /\ UNCHANGED remote_sys_details
       \/ /\ ById(systems, remote_sys_id) = {}
          /\ calls' = Append(calls,
                Call("get_details", remote_sys_id, None, NoArgs, <<>>,
                     NoCred, "404", NoneDetails, None))
          /\ remote_sys_details' = NoneDetails
          /\ pc' = "exit"
          /\ UNCHANGED failure
       \/ \E s \in ById(systems, remote_sys_id) :
            /\ calls' = Append(calls,
                  Call("get_details", remote_sys_id, None, NoArgs, <<>>,
                       NoCred, "ok", s, None))
            /\ remote_sys_details' = s
            /\ pc' = "exit"
            /\ UNCHANGED failure
    /\ UNCHANGED <<params, systems, remote_sys_id, remote_sys_name,
                   remote_sys_address, changed, job_id, result, run,
                   history>>

\* exit_json(**result)
ExitJson ==
    /\ pc = "exit"
    /\ result' = ResultOf(changed, job_id, remote_sys_details)
    /\ pc' = "done"
    /\ UNCHANGED <<params, systems, locals, calls, failure, run, history>>

Next ==
    \/ GetClusters
    \/ CheckName
    \/ Lookup
    \/ EnterCreate
    \/ ExchangeCertificates
    \/ CreateRemoteSystem
    \/ CreateFetch
    \/ EnterDelete
    \/ DeleteRemoteSystem
    \/ EnterUpdate
    \/ ModifyRemoteSystem
    \/ ModifyFetch
    \/ ExitJson

Spec == Init /\ [][Next]_vars

\* The same task is run again after it returned: a new invocation with the
\* same parameters against the array as the earlier one left it.
RunAgain ==
    /\ pc = "done"
    /\ run < MaxRuns
    /\ run' = run + 1
    /\ history' = Append(history, [calls |-> calls, result |-> result])
    /\ pc' = "get_clusters"
    /\ remote_sys_id' = params.remote_id
    /\ remote_sys_name' = params.remote_name
    /\ remote_sys_address' = params.remote_address
    /\ remote_sys_details' = NoneDetails
    /\ changed' = FALSE
    /\ job_id' = None
    /\ calls' = <<>>
    /\ result' = NoResult
    /\ failure' = ""
    /\ UNCHANGED <<params, systems>>

NextTwice == Next \/ RunAgain

SpecTwice == Init /\ [][NextTwice]_vars

\* Two tasks that differ only in remote_user, remote_password and
\* remote_port, each run against the same array: the tasks of the first.
PairParamSpace ==
    {p \in ParamSpace :
        /\ p.remote_id \in {None, "s1"}
        /\ p.remote_name \in {None, "n1"}
        /\ p.remote_address \in {None, "A"}
        /\ p.new_remote_address \in {None, "B"}
        /\ p.description \in {None, "d1"}
        /\ p.network_latency \in {None, "High"}}

InitPair ==
    /\ params \in PairParamSpace
    /\ systems \in InitialArrays
    /\ Collected(params)
    /\ run = 1
    /\ history = <<>>

\* The other task is run once the first one ended after a lookup that
\* found the system: other credentials and port, the array put back to the
\* one system the first lookup returned.
RunOther ==
    /\ pc \in {"done", "failed"}
    /\ run = 1
    /\ Len(calls) >= 2
    /\ DetailsTruthy(calls[2].resp)
    /\ run' = 2
    /\ history' = Append(history, [calls |-> calls, result |-> result,
                                   pc |-> pc, failure |-> failure])
    /\ \E cred \in {<<None, None>>, <<"admin", "pw">>},
          port \in {DefaultPort, DefaultPort + 1} :
         params' = [params EXCEPT !.remote_user = cred[1],
                                  !.remote_password = cred[2],
                                  !.remote_port = port]
    /\ systems' = {calls[2].resp}
    /\ pc' = "get_clusters"
    /\ remote_sys_id' = params.remote_id
    /\ remote_sys_name' = params.remote_name
    /\ remote_sys_address' = params.remote_address
    /\ remote_sys_details' = NoneDetails
    /\ changed' = FALSE
    /\ job_id' = None
    /\ calls' = <<>>
    /\ result' = NoResult
    /\ failure' = ""

NextPair == Next \/ RunOther

SpecPair == InitPair /\ [][NextPair]_vars

\* Records modify_remote_system_required can be handed: a dict of the array
\* with any of the three attributes null or left out.
DiffRecords ==
    {[k \in DOMAIN r \ drop |-> r[k]] :
        r \in {Record("s1", a, d, l) :
                 a \in Addresses \cup {None},
                 d \in Descriptions \cup {None},
                 l \in Latencies \cup {None}},
        drop \in SUBSET PatchKeys}

\* Tasks that reach the update section, one for every patch map.
DiffParamSpace ==
    {p \in ParamSpace :
        /\ p.state = "present"
        /\ p.remote_id = "s1"
        /\ p.remote_name = None
        /\ p.remote_user = None
        /\ ~p.wait_for_completion}

\* The update section alone, entered with every record and every patch.
InitDiff ==
    /\ params \in DiffParamSpace
    /\ systems = {}
    /\ pc = "update_section"
    /\ remote_sys_id = params.remote_id
    /\ remote_sys_name = params.remote_name
    /\ remote_sys_address = params.remote_address
    /\ remote_sys_details \in DiffRecords
    /\ changed = FALSE
    /\ job_id = None
    /\ calls = <<>>
    /\ result = NoResult
    /\ failure = ""
    /\ run = 1
    /\ history = <<>>

NextDiff == EnterUpdate

SpecDiff == InitDiff /\ [][NextDiff]_vars

\* ------------------------------------------------------------------------
\* Vocabulary of the properties
\* ------------------------------------------------------------------------

\* Positions in the call log of the calls of operation op.
CallIdx(log, op) == {i \in DOMAIN log : log[i].op = op}
MutatingIdx(log) == {i \in DOMAIN log : log[i].op \in MutatingOps}

\* The invocation ended, by exit_json or by fail_json.
Finished == pc \in {"done", "failed"}

\* The lookup is the second call of an invocation, after the cluster list.
LookupDone == Len(calls) >= 2
Found ==
    LookupDone /\ calls[2].outcome = "ok" /\ DetailsTruthy(calls[2].resp)
NotFound ==
    /\ LookupDone
    /\ calls[2].outcome \in {"ok", "404"}
    /\ ~DetailsTruthy(calls[2].resp)
FoundRecord == calls[2].resp

\* An identifier counts as supplied when it is a non-empty string: the
\* module takes the empty string for "not given" in every test of
\* remote_id, remote_name and remote_address.
Supplied(v) == v # None /\ v # ""
NameMatches ==
    ~Supplied(params.remote_name) \/ params.remote_name = FoundRecord.name

\* The candidate patch of the caller, and its fields that are non-null and
\* differ from the record cur.
Wanted ==
    [management_address |-> params.new_remote_address,
     description |-> params.description,
     data_network_latency |-> params.network_latency]
Differing(cur) == {k \in PatchKeys : Wanted[k] # None /\ Wanted[k] # cur[k]}

\* Operations of the call log, the lookup named apart from the later
\* fetches by id.
OpsOf(log) ==
    [i \in DOMAIN log |->
       IF i = 2 THEN "lookup"
       ELSE IF log[i].op = "get_details" THEN "fetch" ELSE log[i].op]
IsPrefix(a, b) == Len(a) <= Len(b) /\ a = SubSeq(b, 1, Len(a))

\* ------------------------------------------------------------------------
\* Properties
\* ------------------------------------------------------------------------

\* C1: a state=present task that names its system by remote_id or
\* remote_address and whose first run created or modified reports
\* changed=true on the first run, and the second run with the same
\* parameters issues no exchange, create, modify or delete call and
\* reports changed=false.
C1_Idempotent ==
    (/\ run = 2
     /\ params.state = "present"
     /\ Supplied(params.remote_id) \/ Supplied(params.remote_address)
     /\ \E i \in DOMAIN history[1].calls :
          /\ history[1].calls[i].op \in {"create", "modify"}
          /\ history[1].calls[i].outcome = "ok")
    => /\ history[1].result.changed
       /\ MutatingIdx(calls) = {}
       /\ pc = "done" => ~result.changed

\* C2 as stated: with state=present, a system found and some patch field
\* non-null and different, exactly one modify call is issued and the patch
\* it sends holds exactly the differing fields.
C2_PatchExactlyDiffering ==
    (/\ pc = "done"
     /\ params.state = "present"
     /\ Found
     /\ Differing(FoundRecord) # {})
    => /\ Cardinality(CallIdx(calls, "modify")) = 1
       /\ \A i \in CallIdx(calls, "modify") :
            {k \in DOMAIN calls[i].args :
               calls[i].args[k] # None /\ calls[i].args[k] # FoundRecord[k]}
            = DOMAIN calls[i].args

\* C2 amended: with state=present, a system found whose name matches the
\* supplied remote_name and some patch field non-null and different, a
\* finished invocation has issued exactly one modify call; the patch sent
\* is the whole candidate patch: the caller's value for every differing
\* field, and every other field null or equal to the current value.
C2_PatchIsCandidate ==
    (/\ Finished
     /\ params.state = "present"
     /\ Found
     /\ NameMatches
     /\ Differing(FoundRecord) # {})
    => /\ Cardinality(CallIdx(calls, "modify")) = 1
       /\ \A i \in CallIdx(calls, "modify") :
            /\ calls[i].id = FoundRecord.id
            /\ DOMAIN calls[i].args = PatchKeys
            /\ \A k \in PatchKeys :
                 /\ calls[i].args[k] = Wanted[k]
                 /\ k \notin Differing(FoundRecord)
                      => \/ calls[i].args[k] = None
                         \/ calls[i].args[k] = FoundRecord[k]

\* C2 case: a modify call went out for a found system with one field
\* differing, one field equal and one field unset.
C2_Witness ==
    /\ pc = "done"
    /\ params.state = "present"
    /\ Found
    /\ Cardinality(Differing(FoundRecord)) = 1
    /\ \E k \in PatchKeys : Wanted[k] = None
    /\ \E k \in PatchKeys : Wanted[k] = FoundRecord[k]
    /\ CallIdx(calls, "modify") # {}

\* C3: an invocation issues at most one of create, modify, delete, and its
\* calls follow list-clusters, lookup, then (exchange, create, fetch) or
\* (modify, optional fetch) or (delete).
C3_ExclusiveDispatch ==
    /\ Cardinality({i \in DOMAIN calls :
                      calls[i].op \in {"create", "modify", "delete"}}) <= 1
    /\ \E full \in {<<"get_cluster_list", "lookup", "exchange", "create",
                      "fetch">>,
                    <<"get_cluster_list", "lookup", "modify", "fetch">>,
                    <<"get_cluster_list", "lookup", "delete">>} :
         IsPrefix(OpsOf(calls), full)

\* C4: the exchange call is issued at most once, only after a lookup that
\* found nothing and with state=present; every create call comes right
\* after the one exchange call, which succeeded; after a failed exchange
\* there is no create call.
C4_ExchangeBeforeCreate ==
    /\ Cardinality(CallIdx(calls, "exchange")) <= 1
    /\ \A i \in CallIdx(calls, "exchange") :
         /\ i = 3
         /\ NotFound
         /\ params.state = "present"
         /\ calls[i].outcome = "error" => CallIdx(calls, "create") = {}
    /\ \A j \in CallIdx(calls, "create") :
         /\ j > 1
         /\ calls[j - 1].op = "exchange"
         /\ calls[j - 1].outcome = "ok"
         /\ Cardinality(CallIdx(calls, "exchange")) = 1

\* C4 case: a create call was issued.
C4_Witness ==
    /\ CallIdx(calls, "create") # {}
    /\ CallIdx(calls, "exchange") # {}

\* C5: with state=present, nothing found and remote_id or remote_name
\* supplied, the invocation fails with the input error and issues no
\* exchange, create, modify or delete call.
C5_CreationRejectsIdentity ==
    (/\ params.state = "present"
     /\ NotFound
     /\ Supplied(params.remote_id) \/ Supplied(params.remote_name))
    => /\ MutatingIdx(calls) = {}
       /\ Len(calls) = 2
       /\ pc \in {"create_section", "failed"}
       /\ pc = "failed" => failure = "identity_passed"

\* C5 case: the creation was rejected.
C5_Witness ==
    /\ pc = "failed"
    /\ failure = "identity_passed"
    /\ NotFound
    /\ Supplied(params.remote_name)

\* C6: with state=absent and nothing found (a 404 of the lookup by id or
\* an empty result of the lookup by address) the invocation issues no
\* exchange, create, modify or delete call and returns changed=false.
C6_AbsentAbsentNoOp ==
    (params.state = "absent" /\ NotFound)
    => /\ MutatingIdx(calls) = {}
       /\ pc # "failed"
       /\ pc = "done" => ~result.changed

\* C6 case: the invocation returned after a lookup by address that found
\* nothing.
C6_Witness ==
    /\ pc = "done"
    /\ params.state = "absent"
    /\ NotFound
    /\ calls[2].op = "get_by_mgmt_address"

\* C7: with state=present, a system found and every patch field null or
\* equal to the current value, no modify call is issued, and the
\* invocation returns changed=false with the record of the lookup as
\* remote_system_details.
C7_PresentUnchangedNoOp ==
    (params.state = "present" /\ Found /\ Differing(FoundRecord) = {})
    => /\ MutatingIdx(calls) = {}
       /\ Len(calls) = 2
       /\ pc = "done" =>
            /\ ~result.changed
            /\ result.job_details = None
            /\ result.has_details
            /\ result.remote_system_details = FoundRecord

\* C7 case: the invocation returned with a patch field supplied and equal
\* to the current value and another one unset.
C7_Witness ==
    /\ pc = "done"
    /\ params.state = "present"
    /\ Found
    /\ Differing(FoundRecord) = {}
    /\ \E k \in PatchKeys : Wanted[k] # None
    /\ \E k \in PatchKeys : Wanted[k] = None

\* C8: when the cluster list is empty the invocation fails and the
\* cluster-list query is its only Array Client call.
C8_NoClusterIsFatal ==
    (Len(calls) >= 1 /\ calls[1].outcome = "ok" /\ calls[1].clusters = <<>>)
    => /\ pc = "failed"
       /\ failure = "no_cluster"
       /\ Len(calls) = 1

\* C8 case: the array returned the empty cluster list.
C8_Witness ==
    /\ Len(calls) = 1
    /\ calls[1].outcome = "ok"
    /\ calls[1].clusters = <<>>
    /\ pc = "failed"

\* C9: with state=absent and a system found whose name matches the
\* supplied remote_name, a finished invocation has issued exactly one
\* delete call, for the id of that system, and no exchange, create or
\* modify call; its result has changed=true, the delete response as the
\* job, and no remote system details other than null.
C9_DeleteBranch ==
    (/\ Finished
     /\ params.state = "absent"
     /\ Found
     /\ NameMatches)
    => /\ Cardinality(CallIdx(calls, "delete")) = 1
       /\ MutatingIdx(calls) = CallIdx(calls, "delete")
       /\ \A i \in CallIdx(calls, "delete") :
            /\ calls[i].id = FoundRecord.id
            /\ i = Len(calls)
            /\ pc = "done" =>
                 /\ calls[i].outcome = "ok"
                 /\ result.changed
                 /\ result.job_details = calls[i].job
                 /\ ~result.has_details
                      \/ result.remote_system_details = NoneDetails

\* C9 case: a synchronous delete returned an empty confirmation.
C9_Witness ==
    /\ pc = "done"
    /\ params.state = "absent"
    /\ Found
    /\ CallIdx(calls, "delete") # {}
    /\ result.job_details = None

\* C10: after a modify call that succeeded, (a) an asynchronous call is
\* the last call of the invocation (no fetch follows) and the result has
\* the modify response as the job and no remote system details; (b) a
\* synchronous call is followed by exactly one fetch by id, whose result
\* is reported as remote_system_details, with no job. Both report
\* changed=true.
C10_ModifyResultByMode ==
    \A i \in CallIdx(calls, "modify") :
      calls[i].outcome = "ok" =>
        IF calls[i].is_async = <<TRUE>>
        THEN /\ Len(calls) = i
             /\ pc \in {"exit", "done"}
             /\ pc = "done" =>
                  /\ result.changed
                  /\ result.job_details = calls[i].job
                  /\ Truthy(result.job_details)
                  /\ ~result.has_details
        ELSE /\ calls[i].is_async = <<FALSE>>
             /\ Len(calls) <= i + 1
             /\ pc \in {"exit", "done"} =>
                  /\ Len(calls) = i + 1
                  /\ calls[i + 1].op = "get_details"
                  /\ calls[i + 1].id = calls[i].id
             /\ pc = "done" =>
                  /\ result.changed
                  /\ result.job_details = None
                  /\ result.has_details
                  /\ result.remote_system_details = calls[i + 1].resp

\* C10 case: a synchronous modify was followed by the fetch and the
\* invocation returned.
C10_Witness ==
    /\ pc = "done"
    /\ \E i \in CallIdx(calls, "modify") :
         calls[i].outcome = "ok" /\ calls[i].is_async = <<FALSE>>

\* C11: every modify call and every delete call carries the async flag
\* "not wait_for_completion" (asynchronous under the default false); the
\* exchange call and the create call carry no async flag.
C11_AsyncFlagForwarded ==
    \A i \in DOMAIN calls :
      /\ calls[i].op \in {"modify", "delete"}
           => calls[i].is_async = <<~params.wait_for_completion>>
      /\ calls[i].op \in {"exchange", "create"} => calls[i].is_async = <<>>

\* C11 case: a delete went out asynchronously under wait_for_completion
\* false.
C11_Witness ==
    /\ ~params.wait_for_completion
    /\ \E i \in CallIdx(calls, "delete") : calls[i].is_async = <<TRUE>>

\* C12: with state=present, nothing found, no remote_id/remote_name, and
\* exchange and create succeeded, the create payload is the caller's
\* remote_address, description and network_latency, the next call is the
\* fetch by the id create returned, and the invocation returns changed=true
\* with that fetched record as remote_system_details.
C12_CreateOutcome ==
    (/\ params.state = "present"
     /\ NotFound
     /\ ~Supplied(params.remote_id)
     /\ ~Supplied(params.remote_name))
    => \A i \in CallIdx(calls, "create") :
         /\ calls[i].args =
              [management_address |-> params.remote_address,
               description |-> params.description,
               data_network_latency |-> params.network_latency]
         /\ calls[i].outcome = "ok" /\ Len(calls) > i
              => /\ calls[i + 1].op = "get_details"
                 /\ calls[i + 1].id = calls[i].id
         /\ pc = "done"
              => /\ result.changed
                 /\ result.has_details
                 /\ result.remote_system_details = calls[i + 1].resp
                 /\ result.remote_system_details.id = calls[i].id

\* C13: for a found system whose description is a non-empty string and a
\* state=present task whose other patch fields are null, description=""
\* gives one modify call carrying description="" and changed=true, and
\* description unset gives no modify call.
C13_EmptyStringIsSupplied ==
    (/\ params.state = "present"
     /\ Found
     /\ NameMatches
     /\ Truthy(FoundRecord.description)
     /\ params.new_remote_address = None
     /\ params.network_latency = None)
    => /\ params.description = None => CallIdx(calls, "modify") = {}
       /\ params.description = "" /\ Finished
            => /\ Cardinality(CallIdx(calls, "modify")) = 1
               /\ \A i \in CallIdx(calls, "modify") :
                    /\ calls[i].args.description = ""
                    /\ calls[i].id = FoundRecord.id
               /\ pc = "done" => result.changed

\* C13 case: the description of a found system was cleared.
C13_Witness ==
    /\ pc = "done"
    /\ params.state = "present"
    /\ Found
    /\ Truthy(FoundRecord.description)
    /\ params.description = ""
    /\ params.new_remote_address = None
    /\ params.network_latency = None
    /\ \E i \in CallIdx(calls, "modify") : calls[i].outcome = "ok"

\* C14: with remote_name supplied, (a) when neither remote_address nor
\* remote_id is supplied the invocation ends before the lookup is issued,
\* (b) when the lookup found a system of another name the invocation fails
\* right after the lookup; in both no exchange, create, modify or delete
\* call is issued, whatever the state parameter.
C14_NameGuardsMutation ==
    /\ (/\ Supplied(params.remote_name)
        /\ ~Supplied(params.remote_address)
        /\ ~Supplied(params.remote_id))
       => /\ MutatingIdx(calls) = {}
          /\ Len(calls) <= 1
          /\ pc \in {"get_clusters", "check_name", "failed"}
          /\ pc = "failed" /\ calls[1].outcome = "ok"
               /\ calls[1].clusters # <<>>
               => failure = "name_alone"
    /\ (/\ Supplied(params.remote_name)
        /\ Found
        /\ params.remote_name # FoundRecord.name)
       => /\ MutatingIdx(calls) = {}
          /\ Len(calls) = 2
          /\ pc = "failed"
          /\ failure = "name_mismatch"

\* C14 case: a delete task named a system by id with another name.
C14_Witness ==
    /\ params.state = "absent"
    /\ Supplied(params.remote_name)
    /\ Found
    /\ params.remote_name # FoundRecord.name
    /\ pc = "failed"

\* C15: the lookup queries by management address when remote_address is
\* supplied and by id otherwise; a record it returns by address has that
\* address; after a 404 nothing is found and the invocation goes on with
\* falsy details instead of failing on the call; any other failure of the
\* lookup ends the invocation with the lookup as its last call; the lookup
\* is no mutating call.
C15_LookupOutcome ==
    LookupDone =>
      /\ calls[2].op \notin MutatingOps
      /\ IF Supplied(params.remote_address)
         THEN /\ calls[2].op = "get_by_mgmt_address"
              /\ calls[2].addr = params.remote_address
              /\ DetailsTruthy(calls[2].resp)
                   => calls[2].resp.management_address = params.remote_address
         ELSE /\ calls[2].op = "get_details"
              /\ calls[2].id = params.remote_id
              /\ DetailsTruthy(calls[2].resp)
                   => calls[2].resp.id = params.remote_id
      /\ calls[2].outcome = "404"
           => /\ NotFound
              /\ failure # "client_error" \/ Len(calls) > 2
              /\ pc = "create_section" => ~DetailsTruthy(remote_sys_details)
      /\ calls[2].outcome = "error"
           => /\ pc = "failed"
              /\ failure = "client_error"
              /\ Len(calls) = 2

\* C15 case: a lookup by address got 404 and the invocation went on to
\* create.
C15_Witness ==
    /\ LookupDone
    /\ calls[2].op = "get_by_mgmt_address"
    /\ calls[2].outcome = "404"
    /\ CallIdx(calls, "create") # {}

\* C16: a failed Array Client call is the last call of its invocation,
\* which ends in failure (so nothing is issued again and nothing is
\* cleaned up after a failed create); only a lookup or fetch through
\* get_remote_system_details may end with 404 without failing.
C16_FailFast ==
    \A i \in DOMAIN calls :
      /\ calls[i].outcome = "error"
           => /\ i = Len(calls)
              /\ pc = "failed"
              /\ failure = "client_error"
      /\ calls[i].outcome = "404"
           => calls[i].op \in {"get_details", "get_by_mgmt_address"}

\* C16 case: the create failed after a successful exchange.
C16_Witness ==
    /\ pc = "failed"
    /\ \E i \in CallIdx(calls, "create") :
         /\ calls[i].outcome = "error"
         /\ calls[i - 1].op = "exchange"
         /\ calls[i - 1].outcome = "ok"

\* What a call asks of the array, and what the array answers.
Request(c) ==
    [op |-> c.op, id |-> c.id, addr |-> c.addr, args |-> c.args,
     is_async |-> c.is_async, cred |-> c.cred]
Answer(c) ==
    [outcome |-> c.outcome, resp |-> c.resp, job |-> c.job,
     clusters |-> c.clusters]
AnswersAgree(a, b, n) == \A j \in 1..n : Answer(a[j]) = Answer(b[j])
Shorter(a, b) == IF Len(a) <= Len(b) THEN Len(a) ELSE Len(b)

\* C17: of two tasks that differ only in remote_user, remote_password and
\* remote_port, run against the same array with a lookup that finds the
\* system, each call asks the same of the array as long as the array
\* answered the earlier calls alike, and with all answers alike both end
\* alike, with the same calls and the same result.
C17_CredentialsIgnored ==
    (/\ run = 2
     /\ Len(history) = 1
     /\ "failure" \in DOMAIN history[1]
     /\ Found)
    => LET first == history[1].calls
           n == Shorter(first, calls)
       IN /\ \A i \in 1..n :
               AnswersAgree(first, calls, i - 1)
                 => Request(first[i]) = Request(calls[i])
          /\ Finished /\ AnswersAgree(first, calls, n)
               => /\ Len(calls) = Len(first)
                  /\ pc = history[1].pc
                  /\ failure = history[1].failure
                  /\ result = history[1].result

\* C17 case: both tasks modified the system and returned, under different
\* credentials and ports.
C17_Witness ==
    /\ run = 2
    /\ Len(history) = 1
    /\ pc = "done"
    /\ params.remote_user # None
    /\ params.remote_port # DefaultPort
    /\ \E i \in CallIdx(calls, "modify") : calls[i].outcome = "ok"
    /\ \E i \in CallIdx(history[1].calls, "modify") :
         /\ history[1].calls[i].outcome = "ok"
         /\ history[1].calls[i].args = calls[i].args

\* The value a record holds for an attribute: None when it holds none.
CurrentValue(rec, k) == IF k \in DOMAIN rec THEN rec[k] ELSE None

\* C18: the update section decides for the modify call if and only if some
\* field of the patch is non-null and differs from the value the record
\* holds for the same-named attribute, also when the record holds no value
\* for it.
C18_DiffRule ==
    pc \in {"modify", "exit"}
    => (pc = "modify"
        <=> \E k \in PatchKeys :
              /\ Wanted[k] # None
              /\ Wanted[k] # CurrentValue(remote_sys_details, k))

\* The queries of the array for a remote system.
QueryOps == {"get_details", "get_by_mgmt_address"}
LaterQueries == {i \in DOMAIN calls : i > 2 /\ calls[i].op \in QueryOps}

\* C19: when the lookup finds a system, no later query of the invocation
\* has the adopted id (remote_id omitted) or the adopted address
\* (remote_name and remote_address omitted) as its argument (no query takes
\* a name), and the address differs from the given one only when
\* remote_name was not supplied.
C19_BackfillNeverQueried ==
    Found
    => /\ \A i \in LaterQueries :
            /\ ~Supplied(params.remote_id) => calls[i].id # FoundRecord.id
            /\ ~Supplied(params.remote_name)
                 /\ ~Supplied(params.remote_address)
                 => calls[i].addr # FoundRecord.management_address
       /\ remote_sys_address # params.remote_address
            => ~Supplied(params.remote_name)

\* C19 as the code has it: after a lookup that found a system the only
\* later query is the fetch by id that follows a successful synchronous
\* modify, whose argument is the id of the found record, adopted or given;
\* no later query takes an address; the address is adopted only when
\* neither remote_name nor remote_address was supplied.
C19_BackfillQueriedOnlyById ==
    Found
    => /\ \A i \in LaterQueries :
            /\ calls[i].op = "get_details"
            /\ calls[i].addr = None
            /\ calls[i].id = FoundRecord.id
            /\ calls[i - 1].op = "modify"
            /\ calls[i - 1].outcome = "ok"
            /\ calls[i - 1].is_async = <<FALSE>>
       /\ remote_sys_address # params.remote_address
            => /\ ~Supplied(params.remote_name)
               /\ ~Supplied(params.remote_address)
               /\ remote_sys_address = FoundRecord.management_address

\* C19 case: the system was found by address, its id adopted, and the
\* fetch after a synchronous modify asked for that id.
C19_Witness ==
    /\ Found
    /\ pc = "done"
    /\ ~Supplied(params.remote_id)
    /\ \E i \in LaterQueries :
         /\ calls[i].id = FoundRecord.id
         /\ calls[i].outcome = "ok"

\* The calls that registered, modified or removed a remote system.
Mutated ==
    {i \in DOMAIN calls :
        calls[i].op \in {"create", "modify", "delete"}
        /\ calls[i].outcome = "ok"}

\* C20: once a create, modify or delete call has returned successfully the
\* invocation does not end in a failure, and it returns changed = true.
C20_NoFailureAfterMutation ==
    Mutated # {}
    => /\ pc # "failed"
       /\ pc = "done" => result.changed

\* C20 as the code has it: after a successful create, modify or delete the
\* invocation fails only on an exception of a later call of the Array
\* Client, which is the fetch after create, the modify after create or the
\* fetch after a synchronous modify; it does not fail once a delete or an
\* asynchronous modify has succeeded; when it returns, changed is true.
C20_FailureAfterMutationIsClientError ==
    Mutated # {}
    => LET last == calls[Len(calls)]
       IN /\ pc = "failed"
               => /\ failure = "client_error"
                  /\ last.outcome = "error"
                  /\ \E i \in Mutated : i < Len(calls)
                  /\ \/ /\ last.op = "get_details"
                        /\ calls[Len(calls) - 1].op \in {"create", "modify"}
                        /\ calls[Len(calls) - 1].is_async # <<TRUE>>
                     \/ /\ last.op = "modify"
                        /\ CallIdx(calls, "create") # {}
          /\ (\E i \in Mutated :
                \/ calls[i].op = "delete"
                \/ calls[i].op = "modify" /\ calls[i].is_async = <<TRUE>>)
               => pc # "failed"
          /\ pc = "done" => result.changed

\* C20 case: the create call registered the system and the fetch by the
\* new id failed, so the invocation ended in a failure.
C20_Witness ==
    /\ pc = "failed"
    /\ Len(calls) >= 2
    /\ calls[Len(calls)].op = "get_details"
    /\ calls[Len(calls)].outcome = "error"
    /\ calls[Len(calls) - 1].op = "create"
    /\ calls[Len(calls) - 1].outcome = "ok"
    /\ systems # {}

\* C21: an invocation that returns a result reports changed = true if and
\* only if a create, modify or delete call of this invocation returned
\* successfully; with read calls only it reports changed = false.
C21_ChangedTracksMutation ==
    pc = "done" => (result.changed <=> Mutated # {})

\* C21 case: a synchronous modify whose response is empty was the one
\* mutation, and the invocation returned changed = true.
C21_Witness ==
    /\ pc = "done"
    /\ result.changed
    /\ \E i \in Mutated :
         /\ Mutated = {i}
         /\ calls[i].op = "modify"
         /\ calls[i].job = None

\* Failures reported for the parameters, before any call that mutates.
InputErrors == {"name_alone", "name_mismatch", "identity_passed"}

\* C22: an exchange or create call is issued only when remote_address,
\* remote_user and remote_password are non-null; a state=present task with
\* no identifier at all that finds no system fails with an input error and
\* issues neither exchange nor create.
C22_CreateNeedsAddress ==
    /\ \A i \in DOMAIN calls :
         calls[i].op \in {"exchange", "create"}
           => /\ params.remote_address # None
              /\ params.remote_user # None
              /\ params.remote_password # None
    /\ (/\ params.state = "present"
        /\ params.remote_id = None
        /\ params.remote_name = None
        /\ params.remote_address = None
        /\ NotFound
        /\ Finished)
         => /\ pc = "failed"
            /\ failure \in InputErrors
            /\ CallIdx(calls, "exchange") = {}
            /\ CallIdx(calls, "create") = {}

\* C23: when the first run of a state=absent task that names its system by
\* remote_id or remote_address deleted the system, it issued exactly one
\* delete call and reported changed = true; a later run with the same
\* parameters issues no delete call, fails only if the array fails a call
\* or has no cluster, and reports changed = false.
C23_DeleteIdempotent ==
    (/\ run >= 2
     /\ params.state = "absent"
     /\ Supplied(params.remote_id) \/ Supplied(params.remote_address)
     /\ \E i \in CallIdx(history[1].calls, "delete") :
          history[1].calls[i].outcome = "ok")
    => /\ history[1].result.changed
       /\ Cardinality(CallIdx(history[1].calls, "delete")) = 1
       /\ CallIdx(calls, "delete") = {}
       /\ pc = "failed"
            => \/ failure = "no_cluster"
               \/ /\ failure = "client_error"
                  /\ calls[Len(calls)].outcome = "error"
       /\ pc = "done" => ~result.changed /\ MutatingIdx(calls) = {}

\* C23 case: the first run deleted the system found by address, the second
\* run looked it up, found nothing and returned.
C23_Witness ==
    /\ run = 2
    /\ pc = "done"
    /\ params.state = "absent"
    /\ Supplied(params.remote_address)
    /\ \E i \in CallIdx(history[1].calls, "delete") :
         history[1].calls[i].outcome = "ok"
    /\ Len(calls) = 2
    /\ calls[2].op = "get_by_mgmt_address"
    /\ ~result.changed

\* The record the invocation holds for the system when it issues call i:
\* the one fetched after its own create if there was one, else the one its
\* lookup returned.
CreateFetches(i) ==
    {j \in 3..(i - 1) :
        /\ calls[j].op = "get_details"
        /\ calls[j].outcome = "ok"
        /\ calls[j - 1].op = "create"}
HeldAt(i) ==
    IF CreateFetches(i) # {}
    THEN calls[CHOOSE j \in CreateFetches(i) :
                 \A k \in CreateFetches(i) : k <= j].resp
    ELSE calls[2].resp
Targeting ==
    {i \in DOMAIN calls :
        \/ calls[i].op \in {"modify", "delete"}
        \/ /\ i > 2
           /\ calls[i].op = "get_details"
           /\ calls[i - 1].op = "modify"}

\* C24: the id passed to a modify call, a delete call or the fetch after a
\* modify is the id of the record the invocation holds at that point (from
\* its lookup, also when that went by address, or from the fetch after its
\* own create), and it is never null or empty.
C24_TargetsResolvedSystem ==
    \A i \in Targeting :
      /\ DetailsTruthy(HeldAt(i))
      /\ calls[i].id = HeldAt(i).id
      /\ Supplied(calls[i].id)

\* C24 case: the system was found by address and the delete call went to
\* the id of the found record.
C24_Witness ==
    /\ Found
    /\ calls[2].op = "get_by_mgmt_address"
    /\ params.remote_id = None
    /\ \E i \in CallIdx(calls, "delete") :
         /\ calls[i].outcome = "ok"
         /\ calls[i].id = FoundRecord.id

====
